---- MODULE Spec2Model ----
(***************************************************************************)
(* Model of the sticky-notes MCP server.  The repository holds three       *)
(* near-duplicate server programs: src/server.js, src/unnamed/part_000 and *)
(* src/unnamed/part_001.  The variable `variant` says which of the three   *)
(* programs is running; it is chosen at start-up and never changes.        *)
(*                                                                         *)
(* JavaScript values are represented as follows.                           *)
(*   - a string that the code inspects (ids, titles, texts, timestamps) is *)
(*     a sequence of one-character strings;                                *)
(*   - a string the code only compares or copies (method names, tool       *)
(*     names, error messages) is a TLA+ string;                            *)
(*   - an object is a function from its keys to values; a key whose value  *)
(*     is undefined is left out, as JSON.stringify leaves it out;          *)
(*   - undefined and null, where a whole value, are the records Undefined  *)
(*     and Null.                                                           *)
(***************************************************************************)
EXTENDS Integers, Sequences, FiniteSets, TLC

\* ------------------------------------------------------------------------
\* Bounds of the model
\* ------------------------------------------------------------------------
\* First clock reading (milliseconds since the epoch) of the process.
ClockStart == 35
\* Number of milliseconds the model lets the clock advance.
MaxTicks == 1
\* Last clock reading the model explores.
MaxClock == ClockStart + MaxTicks
\* Largest number of notes the model lets the store or a /sync body hold.
MaxNotes == 2
\* Largest number of notes the store holds where the model follows it
\* growing.
MaxGrow == 3

\* Number of event-stream connections the model lets clients open.
MaxConnections == 2
\* Number of keep-alive frames the model lets one connection receive.
MaxKeepAlives == 2
\* Number of close signals the model lets one connection raise.
MaxCloses == 2
\* Number of /messages requests the model lets arrive.
MaxRequests == 3
\* Number of other requests the model lets the server handle between the
\* return of a /messages handler and the reply it writes after its await.
MaxBetween == 1

\* ------------------------------------------------------------------------
\* JavaScript helpers
\* ------------------------------------------------------------------------
Undefined == [undefined |-> TRUE]
Null == [null |-> TRUE]
EmptyObject == [k \in {} |-> <<>>]

Has(o, k) == k \in DOMAIN o

\* The digits of Number.prototype.toString(36).
Digits36 ==
  << "0", "1", "2", "3", "4", "5", "6", "7", "8", "9", "a", "b", "c", "d",
     "e", "f", "g", "h", "i", "j", "k", "l", "m", "n", "o", "p", "q", "r",
     "s", "t", "u", "v", "w", "x", "y", "z" >>

RECURSIVE ToString36(_)
\* n.toString(36) for an integer n >= 0
ToString36(n) ==
  IF n < 36 THEN << Digits36[n + 1] >>
  ELSE ToString36(n \div 36) \o << Digits36[(n % 36) + 1] >>

\* Two decimal digits of n, 0 <= n < 100.
Pad2(n) == << Digits36[(n \div 10) + 1], Digits36[(n % 10) + 1] >>
\* Three decimal digits of n, 0 <= n < 1000.
Pad3(n) == << Digits36[(n \div 100) + 1] >> \o Pad2(n % 100)

\* new Date(ms).toISOString() for a reading in the first minute after the
\* epoch: "1970-01-01T00:00:SS.mmmZ".
toISOString(ms) ==
  << "1", "9", "7", "0", "-", "0", "1", "-", "0", "1", "T", "0", "0", ":",
     "0", "0", ":" >> \o Pad2(ms \div 1000) \o << "." >> \o Pad3(ms % 1000)
     \o << "Z" >>

Upper26 ==
  << "A", "B", "C", "D", "E", "F", "G", "H", "I", "J", "K", "L", "M", "N",
     "O", "P", "Q", "R", "S", "T", "U", "V", "W", "X", "Y", "Z" >>
Lower26 ==
  << "a", "b", "c", "d", "e", "f", "g", "h", "i", "j", "k", "l", "m", "n",
     "o", "p", "q", "r", "s", "t", "u", "v", "w", "x", "y", "z" >>

toLowerCaseChar(c) ==
  IF \E i \in 1..26 : Upper26[i] = c
  THEN Lower26[CHOOSE i \in 1..26 : Upper26[i] = c]
  ELSE c

\* String.prototype.toLowerCase
toLowerCase(s) == [i \in 1..Len(s) |-> toLowerCaseChar(s[i])]

\* String.prototype.includes
includes(s, q) ==
  \E i \in 0..(Len(s) - Len(q)) : SubSeq(s, i + 1, i + Len(q)) = q

\* Truthiness of a string-valued property that may be missing.
Truthy(o, k) == Has(o, k) /\ o[k] # <<>>

\* `${o[k]}` inside a template literal.
Interpolate(o, k) ==
  IF Has(o, k) THEN o[k] ELSE << "u", "n", "d", "e", "f", "i", "n", "e", "d" >>

\* The second object alone: the first is dropped instead of merged.
Spread_replace(a, b) == b

\* { ...a, ...b }
Spread(a, b) ==
  [k \in (DOMAIN a) \cup (DOMAIN b) |-> IF k \in DOMAIN b THEN b[k] ELSE a[k]]

\* An object literal { k: o[k] } whose value may be undefined.
Pick(o, k) == IF Has(o, k) THEN [x \in {k} |-> o[k]] ELSE EmptyObject

\* The value of the variable notesStore: an array of notes, or, after a
\* /sync that stored a non-array, some other object.
JsArray(items) == [array |-> TRUE, items |-> items]
\* The object {}: not an array, and without a length.
NonArray == [array |-> FALSE, items |-> <<>>]
\* The string "ab": not an array, with the length 2.
StringAb == [array |-> FALSE, items |-> <<>>, length |-> 2]

\* { count: value.length }, where a length that is undefined is left out.
CountOf(value) ==
  IF value.array THEN [count |-> Len(value.items)]
  ELSE IF Has(value, "length") THEN [count |-> value.length]
  ELSE EmptyObject

\* n.id === args.id, where either side may be undefined.
SameId(n, args) ==
  IF Has(args, "id") THEN Has(n, "id") /\ n.id = args.id ELSE ~Has(n, "id")

\* Array.prototype.filter with the predicate n => n.id !== args.id.
RECURSIVE FilterIdNot(_, _)
FilterIdNot(items, args) ==
  IF items = <<>> THEN <<>>
  ELSE (IF SameId(Head(items), args) THEN <<>> ELSE << Head(items) >>)
         \o FilterIdNot(Tail(items), args)

\* Array.prototype.findIndex with the predicate n => n.id === args.id;
\* 1-based here, 0 for JavaScript's -1.
findIndexById(items, args) ==
  IF \E i \in 1..Len(items) : SameId(items[i], args)
  THEN CHOOSE i \in 1..Len(items) :
         SameId(items[i], args) /\ \A j \in 1..(i - 1) : ~SameId(items[j], args)
  ELSE 0

\* ------------------------------------------------------------------------
\* Outcomes of a computation that may throw
\* ------------------------------------------------------------------------
\* The computation returned `result` and left the store as `store`.
Return(store, result) ==
  [store |-> store, threw |-> FALSE, message |-> "", result |-> result]
\* The computation threw an Error whose message is `message`, having left
\* the store as `store`.
Throw(store, message) ==
  [store |-> store, threw |-> TRUE, message |-> message, result |-> Null]

TypeErrorReading(what, prop) ==
  "Cannot read properties of " \o what \o " (reading '" \o prop \o "')"
NotAFunction(expr) == expr \o " is not a function"

\* { content: [{ type: "text", text: text }] }
ToolResult(text) == [content |-> << [type |-> "text", text |-> text] >>]

\* JSON.stringify(value, null, 2): the text is represented by the value it
\* serialises.
JSONstringify(value) == [template |-> "JSON", value |-> value]

\* ------------------------------------------------------------------------
\* Tool dispatch.  `store` is the value of notesStore when the call starts,
\* `name` the tool name ("undefined" when the request gives none: the code
\* only switches on it and prints it), `args` the arguments object or
\* Undefined, `t` the readings of the clock during the call, one for each
\* Date.now() or new Date() in the order the call evaluates them, and
\* `rnd` the digits Math.random().toString(36).substr(2) yields.
\* ------------------------------------------------------------------------

\* notesStore[index] = note
SetAt(items, index, note) == [items EXCEPT ![index] = note]

\* The note appended instead of prepended.
unshift_push(items, newNote) == items \o << newNote >>

\* notesStore.unshift(newNote)
unshift(items, newNote) == << newNote >> \o items

\* src/server.js, handleToolCall
handleToolCall_server(name, args, store, t) ==
  CASE name = "list_notes" ->
         Return(store, ToolResult(JSONstringify(store)))
    [] name = "create_note" ->
         IF args = Undefined
         THEN Throw(store, TypeErrorReading("undefined", "title"))
         ELSE LET newNote == [id |-> ToString36(t[1])]
                               @@ Pick(args, "title") @@ Pick(args, "text")
              IN  IF ~store.array
                  THEN Throw(store, NotAFunction("notesStore.unshift"))
                  ELSE Return(JsArray(unshift(store.items, newNote)),
                         ToolResult([template |-> "Note created: ${title}",
                                     title |-> Interpolate(newNote, "title")]))
    [] name = "update_note" ->
         IF ~store.array
         THEN Throw(store, NotAFunction("notesStore.findIndex"))
         ELSE IF store.items # <<>> /\ args = Undefined
         THEN Throw(store, TypeErrorReading("undefined", "id"))
         ELSE LET index == findIndexById(store.items, args)
              IN  IF index = 0
                  THEN Throw(store, "Note not found")
                  ELSE LET merged == Spread(store.items[index], args)
                       IN  Return(JsArray(SetAt(store.items, index, merged)),
                             ToolResult([template |-> "Note updated: ${title}",
                                         title |-> Interpolate(merged, "title")]))
    [] name = "delete_note" ->
         IF ~store.array
         THEN Throw(store, NotAFunction("notesStore.filter"))
         ELSE IF store.items # <<>> /\ args = Undefined
         THEN Throw(store, TypeErrorReading("undefined", "id"))
         ELSE Return(JsArray(FilterIdNot(store.items, args)),
                ToolResult([template |-> "Note deleted successfully"]))
    [] OTHER -> Throw(store, "Unknown tool: " \o name)

\* src/unnamed/part_000, handleToolCall
handleToolCall_part000(name, args, store, t) ==
  CASE name = "list_notes" ->
         Return(store, ToolResult(JSONstringify(store)))
    [] name = "create_note" ->
         IF args = Undefined
         THEN Throw(store, TypeErrorReading("undefined", "title"))
         ELSE LET newNote == [id |-> ToString36(t[1]),
                              timestamp |-> toISOString(t[2])]
                               @@ Pick(args, "title") @@ Pick(args, "text")
              IN  Return(JsArray(unshift(store.items, newNote)),
                    ToolResult(
                      [template |-> "Note created: ${title} (ID: ${id})",
                       title |-> Interpolate(newNote, "title"),
                       id |-> Interpolate(newNote, "id")]))
    [] name = "update_note" ->
         IF store.items # <<>> /\ args = Undefined
         THEN Throw(store, TypeErrorReading("undefined", "id"))
         ELSE LET index == findIndexById(store.items, args)
              IN  IF index = 0
                  THEN Throw(store, "Note not found")
                  ELSE LET merged == Spread(store.items[index], args)
                       IN  Return(JsArray(SetAt(store.items, index, merged)),
                             ToolResult([template |-> "Note updated: ${title}",
                                         title |-> Interpolate(merged, "title")]))
    [] name = "delete_note" ->
         IF store.items # <<>> /\ args = Undefined
         THEN Throw(store, TypeErrorReading("undefined", "id"))
         ELSE LET kept == FilterIdNot(store.items, args)
              IN  IF Len(kept) = Len(store.items)
                  THEN Throw(JsArray(kept), "Note not found")
                  ELSE Return(JsArray(kept),
                         ToolResult([template |-> "Note deleted successfully"]))
    [] OTHER -> Throw(store, "Unknown tool: " \o name)

\* n.title.toLowerCase().includes(query) || n.text.toLowerCase().includes(query)
\* throws when it reads toLowerCase of a missing title, or of a missing
\* text after the title failed to match.
MatchThrows(n, query) ==
  \/ ~Has(n, "title")
  \/ ~includes(toLowerCase(n.title), query) /\ ~Has(n, "text")

Matches(n, query) ==
  \/ includes(toLowerCase(n.title), query)
  \/ Has(n, "text") /\ includes(toLowerCase(n.text), query)

\* src/unnamed/part_001, the switch of app.post('/mcp/tools/call')
toolsCall_part001(name, args, store, t, rnd) ==
  CASE name = "list_notes" ->
         Return(store, ToolResult(JSONstringify(store)))
    [] name = "create_note" ->
         IF args = Undefined
         THEN Throw(store, TypeErrorReading("undefined", "title"))
         ELSE LET newNote == [id |-> ToString36(t[1]) \o rnd,
                              createdAt |-> toISOString(t[2]),
                              updatedAt |-> toISOString(t[3])]
                               @@ Pick(args, "title") @@ Pick(args, "text")
              IN  IF ~store.array
                  THEN Throw(store, NotAFunction("notesStore.unshift"))
                  ELSE Return(JsArray(unshift(store.items, newNote)),
                         ToolResult(
                           [template |-> "Note created successfully: ${JSON}",
                            note |-> newNote]))
    [] name = "update_note" ->
         IF ~store.array
         THEN Throw(store, NotAFunction("notesStore.findIndex"))
         ELSE IF store.items # <<>> /\ args = Undefined
         THEN Throw(store, TypeErrorReading("undefined", "id"))
         ELSE LET noteIndex == findIndexById(store.items, args)
              IN  IF noteIndex = 0
                  THEN Throw(store, "Note not found")
                  ELSE LET merged ==
                             [updatedAt |-> toISOString(t[1])]
                               @@ (IF Truthy(args, "text")
                                   THEN Pick(args, "text") ELSE EmptyObject)
                               @@ (IF Truthy(args, "title")
                                   THEN Pick(args, "title") ELSE EmptyObject)
                               @@ store.items[noteIndex]
                       IN  Return(JsArray(SetAt(store.items, noteIndex, merged)),
                             ToolResult(
                               [template |-> "Note updated successfully: ${JSON}",
                                note |-> merged]))
    [] name = "delete_note" ->
         IF ~store.array
         THEN Throw(store, NotAFunction("notesStore.filter"))
         ELSE IF store.items # <<>> /\ args = Undefined
         THEN Throw(store, TypeErrorReading("undefined", "id"))
         ELSE LET kept == FilterIdNot(store.items, args)
              IN  IF Len(kept) = Len(store.items)
                  THEN Throw(JsArray(kept), "Note not found")
                  ELSE Return(JsArray(kept),
                         ToolResult([template |-> "Note deleted successfully"]))
    [] name = "search_notes" ->
         IF args = Undefined
         THEN Throw(store, TypeErrorReading("undefined", "query"))
         ELSE IF ~Has(args, "query")
         THEN Throw(store, TypeErrorReading("undefined", "toLowerCase"))
         ELSE IF ~store.array
         THEN Throw(store, NotAFunction("notesStore.filter"))
         ELSE LET query == toLowerCase(args.query)
              IN  IF \E i \in 1..Len(store.items) :
                       MatchThrows(store.items[i], query)
                  THEN Throw(store, TypeErrorReading("undefined", "toLowerCase"))
                  ELSE LET matches ==
                             SelectSeq(store.items,
                                       LAMBDA n : Matches(n, query))
                       IN  Return(store,
                             ToolResult(
                               [template |-> "Found ${length} notes:\n${JSON}",
                                length |-> Len(matches),
                                matches |-> matches]))
    [] OTHER -> Throw(store, "Unknown tool: " \o name)

\* ------------------------------------------------------------------------
\* HTTP responses.  A handler's output is the sequence of responses it
\* writes: res.json(body), res.status(n).json(body) or res.status(n).end().
\* ------------------------------------------------------------------------
Json(status, body) == [status |-> status, kind |-> "json", body |-> body]
End(status) == [status |-> status, kind |-> "end", body |-> EmptyObject]

SERVER_NAME == "sticky-notes-mcp"
SERVER_VERSION == "1.0.0"

\* One tool descriptor: its name, its description and, of its inputSchema,
\* the property names and the required list.
Tool(name, description, properties, required) ==
  [name |-> name, description |-> description,
   inputSchema |-> [type |-> "object", properties |-> properties,
                    required |-> required]]

\* The descriptors that server.js and part_000 list.
mcpTools ==
  << Tool("list_notes", "Get all sticky notes from the Chrome extension",
          <<>>, <<>>),
     Tool("create_note", "Create a new sticky note",
          << "title", "text" >>, << "title", "text" >>),
     Tool("update_note", "Update an existing sticky note",
          << "id", "title", "text" >>, << "id" >>),
     Tool("delete_note", "Delete a sticky note", << "id" >>, << "id" >>) >>

\* The descriptors that part_001 lists.
mcpTools_part001 ==
  [tools |-> mcpTools \o
     << Tool("search_notes", "Search notes by keyword in title or content",
             << "query" >>, << "query" >>) >>]

\* message.method is truthy
HasMethod(message) == Has(message, "method") /\ message.method # ""

\* A dispatcher whose default case answers null instead of throwing.
handleToolCall_lenient(v, name, args, store, t) ==
  IF name \in {"list_notes", "create_note", "update_note", "delete_note"}
  THEN IF v = "server" THEN handleToolCall_server(name, args, store, t)
       ELSE handleToolCall_part000(name, args, store, t)
  ELSE Return(store, Null)

\* A dispatcher whose failures leave the store empty.
handleToolCall_clearing(v, name, args, store, t) ==
  LET r == IF v = "server" THEN handleToolCall_server(name, args, store, t)
           ELSE handleToolCall_part000(name, args, store, t)
  IN  IF r.threw THEN Throw(JsArray(<<>>), r.message) ELSE r

handleToolCall(v, name, args, store, t) ==
  IF v = "server" THEN handleToolCall_server(name, args, store, t)
  ELSE handleToolCall_part000(name, args, store, t)

\* The name and the arguments that a params or body object carries.
NameOf(o) == IF Has(o, "name") THEN o.name ELSE "undefined"
ArgumentsOf(o) == IF Has(o, "arguments") THEN o.arguments ELSE Undefined

\* A switch whose default case throws instead of ignoring the method.
computeResult_strict(v, message, store, t) ==
  CASE message.method = "initialize" ->
         Return(store,
           [protocolVersion |-> "2024-11-05",
            capabilities |-> [tools |-> EmptyObject],
            serverInfo |-> [name |-> SERVER_NAME, version |-> SERVER_VERSION]])
    [] message.method = "notifications/initialized" -> Return(store, Null)
    [] message.method = "tools/list" -> Return(store, [tools |-> mcpTools])
    [] message.method = "tools/call" ->
         IF ~Has(message, "params")
         THEN Throw(store, TypeErrorReading("undefined", "name"))
         ELSE handleToolCall(v, NameOf(message.params),
                             ArgumentsOf(message.params), store, t)
    [] OTHER -> Throw(store, "Method not found")

\* The switch on message.method inside the try block of /messages.
computeResult(v, message, store, t) ==
  CASE message.method = "initialize" ->
         Return(store,
           [protocolVersion |-> "2024-11-05",
            capabilities |-> [tools |-> EmptyObject],
            serverInfo |-> [name |-> SERVER_NAME, version |-> SERVER_VERSION]])
    [] message.method = "notifications/initialized" -> Return(store, Null)
    [] message.method = "tools/list" -> Return(store, [tools |-> mcpTools])
    [] message.method = "tools/call" ->
         IF ~Has(message, "params")
         THEN Throw(store, TypeErrorReading("undefined", "name"))
         ELSE handleToolCall(v, NameOf(message.params),
                             ArgumentsOf(message.params), store, t)
    [] OTHER -> Return(store, Null)

\* What a handler did: the store it left, the responses it wrote, whether
\* computing the result threw (and with what message), whether it logged
\* the failure, and whether the failure left the handler uncaught.
Handled(store, out, r, logged) ==
  [store |-> store, out |-> out, threw |-> r.threw, message |-> r.message,
   logged |-> logged, uncaught |-> FALSE]

NoThrow == Return(NonArray, Null)

\* The response to a message whose result was computed: an envelope for a
\* request, a bare 200 for a notification.
respond(message, result) ==
  IF Has(message, "id")
  THEN << Json(200, [jsonrpc |-> "2.0", id |-> message.id, result |-> result]) >>
  ELSE << End(200) >>

\* A catch block that answers every failure with a bare 500.
catchError_bare(message, errorMessage) == << End(500) >>

\* The response of the catch block to an Error with message `errorMessage`.
catchError(message, errorMessage) ==
  IF Has(message, "id")
  THEN << Json(200, [jsonrpc |-> "2.0", id |-> message.id,
                     error |-> [code |-> -32603, message |-> errorMessage]]) >>
  ELSE << End(500) >>

\* A try statement without its catch: the failure leaves the handler and
\* nothing is written.
tryCatch_rethrow(v, message, store, t) ==
  LET r == computeResult(v, message, store, t)
  IN  IF ~r.threw
      THEN Handled(r.store, respond(message, r.result), r, FALSE)
      ELSE [Handled(r.store, <<>>, r, FALSE) EXCEPT !.uncaught = TRUE]

\* The try/catch statement of /messages.
tryCatch(v, message, store, t) ==
  LET r == computeResult(v, message, store, t)
  IN  IF ~r.threw
      THEN Handled(r.store, respond(message, r.result), r, FALSE)
      ELSE Handled(r.store, catchError(message, r.message), r, TRUE)

\* A handler without the check of message.method: a missing method falls
\* to the default case of the switch.
messages_unvalidated(v, message, store, t) ==
  IF ~HasMethod(message)
  THEN Handled(store, respond(message, Null), NoThrow, FALSE)
  ELSE tryCatch(v, message, store, t)

\* app.post('/messages') of server.js and part_000
messages(v, message, store, t) ==
  IF ~HasMethod(message)
  THEN Handled(store,
         << Json(400, [error |-> "Invalid JSON-RPC message"]) >>,
         NoThrow, FALSE)
  ELSE tryCatch(v, message, store, t)

\* app.post('/mcp/tools/call') of part_001
mcpToolsCall(body, store, t, rnd) ==
  LET r == toolsCall_part001(NameOf(body), ArgumentsOf(body), store, t, rnd)
  IN  IF ~r.threw
      THEN Handled(r.store, << Json(200, r.result) >>, r, FALSE)
      ELSE Handled(r.store,
             << Json(400, [error |-> [code |-> "TOOL_EXECUTION_ERROR",
                                      message |-> r.message]]) >>,
             r, FALSE)

\* app.post('/mcp/tools/list') of part_001
mcpToolsList(store) ==
  Handled(store, << Json(200, mcpTools_part001) >>, NoThrow, FALSE)

\* app.post('/sync'): server.js and part_001 store whatever truthy value
\* the body gives; part_000 stores arrays only.
sync(v, body, store) ==
  IF v = "part_000"
  THEN IF Has(body, "notes") /\ body.notes.array
       THEN Handled(body.notes,
              << Json(200, [success |-> TRUE,
                            count |-> Len(body.notes.items)]) >>,
              NoThrow, FALSE)
       ELSE Handled(store, << Json(400, [error |-> "Invalid notes data"]) >>,
              NoThrow, FALSE)
  ELSE LET new == IF Has(body, "notes") THEN body.notes ELSE JsArray(<<>>)
           base == IF v = "server" THEN [success |-> TRUE]
                   ELSE [success |-> TRUE,
                         message |-> "Notes synced successfully"]
       IN  Handled(new, << Json(200, base @@ CountOf(new)) >>, NoThrow, FALSE)

\* ------------------------------------------------------------------------
\* The event stream: app.get('/sse') of server.js and part_000.  A
\* connection is the pair (req, res) of one GET /sse; its log holds, in
\* order, the frames written to res and the close signals of req.  The set
\* `active` holds the handles of the intervals that are scheduled.
\* ------------------------------------------------------------------------
EndpointFrame == "event: endpoint\ndata: /messages\n\n"
KeepAliveFrame == ": keep-alive\n\n"

\* res.write(frame), and the 'close' event of req, as entries of the log.
Written(frame) == [event |-> "write", frame |-> frame]
Closed == [event |-> "close", frame |-> ""]

\* A connection no client has opened yet.
NoConnection == [phase |-> "none", log |-> <<>>, keepAlive |-> 0]

\* setInterval(callback, 15000): the interval with handle `handle` is
\* scheduled.
setInterval(active, handle) == active \cup {handle}

\* A clearInterval that cancels every scheduled interval.
clearInterval_all(active, handle) == {}

\* clearInterval(handle): a handle that is not scheduled is ignored.
clearInterval(active, handle) == active \ {handle}

\* A handler that starts the timer without announcing the endpoint.
sseConnect_silent(handle) ==
  [phase |-> "open", log |-> <<>>, keepAlive |-> handle]

\* The handler of GET /sse: the endpoint frame is written and the interval
\* it starts is kept in keepAlive.
sseConnect(handle) ==
  [phase |-> "open", log |-> << Written(EndpointFrame) >>, keepAlive |-> handle]

\* The callback of the interval.
keepAliveCallback(conn) ==
  [conn EXCEPT !.log = Append(@, Written(KeepAliveFrame))]

\* The listener of req's 'close' event, apart from its clearInterval.
closeListener(conn) ==
  [conn EXCEPT !.phase = "closed", !.log = Append(@, Closed)]

\* ------------------------------------------------------------------------
\* A tools/call of /messages taken in the steps the handler makes: what it
\* reads of the store, what it then writes, and, after the await, the
\* response.  `tmp` holds the handler's local constants.
\* ------------------------------------------------------------------------
\* The locals of a call that has not read anything.
NoLocals ==
  [index |-> 0, kept |-> <<>>, initialLength |-> 0, newNote |-> EmptyObject]

\* A step of a call: whether the call is over, its outcome if it is, and
\* its locals.
Over(outcome) == [over |-> TRUE, outcome |-> outcome, tmp |-> NoLocals]
Going(store, tmp) ==
  [over |-> FALSE, outcome |-> Return(store, Null), tmp |-> tmp]

\* notesStore[index] = note, which lengthens the array when index is past
\* its end; an element never assigned reads as undefined.
SetAtJs(items, index, note) ==
  [i \in 1..(IF index > Len(items) THEN index ELSE Len(items)) |->
     IF i = index THEN note
     ELSE IF i <= Len(items) THEN items[i] ELSE Undefined]

\* notesStore[index], undefined past the end of the array.
GetAtJs(items, index) ==
  IF index <= Len(items) THEN items[index] ELSE EmptyObject

\* handleToolCall up to its write of the store: the right-hand sides and
\* the tests that come before the write.
toolCallLookup(v, name, args, store, t) ==
  CASE name = "list_notes" ->
         Over(Return(store, ToolResult(JSONstringify(store))))
    [] name = "create_note" ->
         IF args = Undefined
         THEN Over(Throw(store, TypeErrorReading("undefined", "title")))
         ELSE Going(store,
                [NoLocals EXCEPT
                   !.newNote =
                     (IF v = "server" THEN [id |-> ToString36(t[1])]
                      ELSE [id |-> ToString36(t[1]),
                            timestamp |-> toISOString(t[2])])
                     @@ Pick(args, "title") @@ Pick(args, "text")])
    [] name = "update_note" ->
         IF ~store.array
         THEN Over(Throw(store, NotAFunction("notesStore.findIndex")))
         ELSE IF store.items # <<>> /\ args = Undefined
         THEN Over(Throw(store, TypeErrorReading("undefined", "id")))
         ELSE LET index == findIndexById(store.items, args)
              IN  IF index = 0
                  THEN Over(Throw(store, "Note not found"))
                  ELSE Going(store, [NoLocals EXCEPT !.index = index])
    [] name = "delete_note" ->
         IF ~store.array
         THEN Over(Throw(store, NotAFunction("notesStore.filter")))
         ELSE IF store.items # <<>> /\ args = Undefined
         THEN Over(Throw(store, TypeErrorReading("undefined", "id")))
         ELSE Going(store,
                [NoLocals EXCEPT !.kept = FilterIdNot(store.items, args),
                                 !.initialLength = Len(store.items)])
    [] OTHER -> Over(Throw(store, "Unknown tool: " \o name))

\* handleToolCall from its write of the store to its return.
toolCallWrite(v, name, args, store, tmp) ==
  CASE name = "create_note" ->
         IF ~store.array
         THEN Throw(store, NotAFunction("notesStore.unshift"))
         ELSE Return(JsArray(unshift(store.items, tmp.newNote)),
                ToolResult(
                  IF v = "server"
                  THEN [template |-> "Note created: ${title}",
                        title |-> Interpolate(tmp.newNote, "title")]
                  ELSE [template |-> "Note created: ${title} (ID: ${id})",
                        title |-> Interpolate(tmp.newNote, "title"),
                        id |-> Interpolate(tmp.newNote, "id")]))
    [] name = "update_note" ->
         LET merged == Spread(GetAtJs(store.items, tmp.index), args)
         IN  Return(JsArray(SetAtJs(store.items, tmp.index, merged)),
               ToolResult([template |-> "Note updated: ${title}",
                           title |-> Interpolate(merged, "title")]))
    [] name = "delete_note" ->
         IF v = "part_000" /\ Len(tmp.kept) = tmp.initialLength
         THEN Throw(JsArray(tmp.kept), "Note not found")
         ELSE Return(JsArray(tmp.kept),
                ToolResult([template |-> "Note deleted successfully"]))

\* The response written once the awaited call has settled.
settle(message, outcome) ==
  IF outcome.threw THEN catchError(message, outcome.message)
  ELSE respond(message, outcome.result)

\* A request slot of the server: free, or holding a request that is
\* received (its body parsed, its handler not yet run), looked (the handler
\* has read the store and not yet written it), awaiting (the call has
\* settled, the handler has returned to the event loop and the continuation
\* of its await is queued) or answered.
FreeSlot ==
  [pc |-> "free", message |-> EmptyObject, t |-> <<>>, seen |-> JsArray(<<>>),
   tmp |-> NoLocals, outcome |-> Return(JsArray(<<>>), Null), out |-> <<>>]

\* An event loop that starts a handler while another is in progress.
EventLoopIdle_preemptive(slots) == TRUE

\* The event loop starts a request's handler only when no handler is on the
\* call stack: the synchronous part of a handler, up to its await, runs
\* without interruption.  Handlers that have returned at their await do not
\* keep others from starting.
EventLoopIdle(slots) ==
  \A r \in DOMAIN slots : slots[r].pc # "looked"

\* ------------------------------------------------------------------------
\* Inputs
\* ------------------------------------------------------------------------
\* Either no key k, or key k with a value of S.
Opt(k, S) == {EmptyObject} \cup {[x \in {k} |-> val] : val \in S}

TitleValues == { <<>>, << "A" >> }
TextValues == { << "a" >> }
QueryValues == { <<>>, << "A" >> }
\* Outcomes of Math.random().toString(36).substr(2).
RandomDigits == { << "4" >>, << "k" >> }
\* Only create_note draws a random number.
RandomOutcomes(name) ==
  IF name = "create_note" THEN RandomDigits ELSE { <<>> }
\* The id of a JSON-RPC request.
EnvelopeIds == { 7 }

Variants == { "server", "part_000", "part_001" }

\* The number of times a call of tool `name` reads the clock in variant v,
\* which depends on how far the call gets.  create_note reads it for the id
\* before it reads args.title, and for its timestamps after args.text;
\* update_note of part_001 reads it once it has found the note.
ClockReads(v, name, args, store) ==
  CASE name = "create_note" ->
         IF args = Undefined THEN 1
         ELSE IF v = "server" THEN 1
         ELSE IF v = "part_000" THEN 2
         ELSE 3
    [] name = "update_note" /\ v = "part_001" ->
         IF ~store.array THEN 0
         ELSE IF store.items # <<>> /\ args = Undefined THEN 0
         ELSE IF findIndexById(store.items, args) = 0 THEN 0
         ELSE 1
    [] OTHER -> 0

\* What n successive readings of a clock that stands at `from` can give:
\* the first is `from`, and the clock does not go back.
ClockReadings(from, n) ==
  {ts \in [1..n -> from..MaxClock] :
     /\ n >= 1 => ts[1] = from
     /\ \A i \in 1..(n - 1) : ts[i] <= ts[i + 1]}

\* Where the clock stands after the readings ts, having stood at `from`.
ClockAfter(from, ts) == IF ts = <<>> THEN from ELSE ts[Len(ts)]

\* The ids that requests name: those a create_note of variant v issues at
\* the first clock reading.
IdPool(v) ==
  IF v = "part_001"
  THEN {ToString36(ClockStart) \o r : r \in RandomDigits}
  ELSE {ToString36(ClockStart)}

\* Arguments of create_note: complete, with an empty title, without a
\* title, without a text.
CreateArgs ==
  { [title |-> << "A" >>, text |-> << "a" >>],
    [title |-> <<>>, text |-> << "a" >>],
    [text |-> << "a" >>],
    [title |-> << "A" >>] }
\* The title and/or text an update_note supplies.
Patches ==
  { EmptyObject,
    [title |-> << "A" >>],
    [title |-> <<>>],
    [text |-> << "a" >>],
    [title |-> << "A" >>, text |-> << "a" >>] }
\* A patch with a key the schema does not declare.
ExtraKeyPatches == { [color |-> << "c" >>] }
UpdateArgs(v) ==
  {i @@ a : i \in Opt("id", IdPool(v)), a \in Patches}
  \cup (IF v = "server"
        THEN {i @@ a : i \in Opt("id", IdPool(v)), a \in ExtraKeyPatches}
        ELSE {})
DeleteArgs(v) == Opt("id", IdPool(v))
SearchArgs == Opt("query", QueryValues)

\* A params object of tools/call.
ToolCalls(v) ==
  { [name |-> "list_notes", arguments |-> EmptyObject],
    [name |-> "list_notes"],
    [name |-> "nonexistent_tool", arguments |-> EmptyObject],
    [arguments |-> EmptyObject],
    [name |-> "search_notes", arguments |-> [query |-> << "A" >>]] }
  \cup {[name |-> "create_note"] @@ a : a \in Opt("arguments", CreateArgs)}
  \cup {[name |-> "update_note"] @@ a : a \in Opt("arguments", UpdateArgs(v))}
  \cup {[name |-> "delete_note"] @@ a : a \in Opt("arguments", DeleteArgs(v))}

\* A body of /mcp/tools/call: the same calls, and search_notes with each
\* query.
McpToolCalls(v) ==
  ToolCalls(v)
  \cup {[name |-> "search_notes"] @@ a : a \in Opt("arguments", SearchArgs)}

\* The tools/call params a notification (an envelope without id) carries:
\* one call of each tool, one with missing arguments.
NotificationCalls(v) ==
  { [name |-> "list_notes", arguments |-> EmptyObject],
    [name |-> "nonexistent_tool", arguments |-> EmptyObject],
    [name |-> "create_note"],
    [name |-> "create_note",
     arguments |-> [title |-> << "A" >>, text |-> << "a" >>]],
    [name |-> "update_note",
     arguments |-> [id |-> ToString36(ClockStart), title |-> <<>>]],
    [name |-> "delete_note", arguments |-> [id |-> ToString36(ClockStart)]] }

\* The envelopes POSTed to /messages.
Messages(v) ==
  {m @@ i : m \in Opt("method", {"", "initialize", "notifications/initialized",
                                 "tools/list", "ping"}),
            i \in Opt("id", EnvelopeIds)}
  \cup {[method |-> "tools/call", id |-> i] @@ p :
          i \in EnvelopeIds, p \in Opt("params", ToolCalls(v))}
  \cup {[method |-> "tools/call"] @@ p : p \in Opt("params", NotificationCalls(v))}
  \cup {m @@ i @@ [params |-> [name |-> "create_note",
                               arguments |-> [title |-> << "A" >>,
                                              text |-> << "a" >>]]] :
          m \in Opt("method", {""}), i \in Opt("id", EnvelopeIds)}

\* The requests another client has handled between a handler's return and
\* its reply: tools/call notifications that create, change or delete a note.
BetweenMessages(v) ==
  {[method |-> "tools/call", params |-> p] :
     p \in {q \in NotificationCalls(v) :
              /\ Has(q, "arguments")
              /\ q.name \in {"create_note", "update_note", "delete_note"}}}

\* The handler of `message` awaits: it reaches await handleToolCall(...).
Awaits(message) ==
  HasMethod(message) /\ message.method = "tools/call" /\ Has(message, "params")

\* The number of times the handler of `message` reads the clock.
ClockReadsOf(v, message, store) ==
  IF Awaits(message)
  THEN ClockReads(v, NameOf(message.params), ArgumentsOf(message.params), store)
  ELSE 0

\* The input sets, computed once per variant.
MessagesOf == [v \in Variants |-> Messages(v)]
McpToolCallsOf == [v \in Variants |-> McpToolCalls(v)]

\* The notes the browser extension sends to /sync: two with the same id,
\* the second without a title.
SyncList ==
  << [id |-> ToString36(ClockStart), title |-> << "A" >>, text |-> << "a" >>],
     [id |-> ToString36(ClockStart), text |-> << "a" >>] >>

\* A body of /sync: without notes, with an object or a string for notes, or
\* with an array of the first notes of SyncList.
SyncBodies ==
  Opt("notes",
      {NonArray, StringAb}
      \cup {JsArray(SubSeq(SyncList, 1, n)) : n \in 0..Len(SyncList)})

\* The connections clients open.
Connections == 1..MaxConnections

\* The requests that are in flight together: tools/call requests that
\* create a note, change or delete the note of the first id, list the notes,
\* or name an unknown tool.
ConcurrentMessages ==
  {[method |-> "tools/call", id |-> i, params |-> p] :
     i \in EnvelopeIds,
     p \in { [name |-> "create_note",
              arguments |-> [title |-> << "A" >>, text |-> << "a" >>]],
             [name |-> "update_note",
              arguments |-> [id |-> ToString36(ClockStart), title |-> <<>>]],
             [name |-> "delete_note",
              arguments |-> [id |-> ToString36(ClockStart)]],
             [name |-> "list_notes", arguments |-> EmptyObject] }}

\* The slots of the requests.
Requests == 1..MaxRequests

\* The calls made while the store grows: create_note with each arguments
\* object and without one, and a change, a removal and a listing.
GrowCalls ==
  {[name |-> "create_note"] @@ a : a \in Opt("arguments", CreateArgs)}
  \cup { [name |-> "update_note",
          arguments |-> [id |-> ToString36(ClockStart), title |-> <<>>]],
         [name |-> "delete_note",
          arguments |-> [id |-> ToString36(ClockStart)]],
         [name |-> "list_notes", arguments |-> EmptyObject] }

\* The envelopes that carry them to /messages.
GrowMessages ==
  {[method |-> "tools/call", id |-> i, params |-> p] :
     i \in EnvelopeIds, p \in GrowCalls}

\* ------------------------------------------------------------------------
\* State
\* ------------------------------------------------------------------------
VARIABLES
  variant,     \* which of the three programs runs
  notesStore,  \* let notesStore = []
  now,         \* the clock, in milliseconds
  last,        \* the last request handled: what it was and what came of it
  connections, \* the event-stream connections
  timers,      \* the handles of the scheduled intervals
  nextTimer,   \* the handle the next setInterval returns
  inflight,    \* the /messages requests taken step by step
  handled      \* the slots whose handler has started, in that order

vars ==
  << variant, notesStore, now, last, connections, timers, nextTimer,
     inflight, handled >>

\* The state of the event stream and of the step-by-step requests.
sseVars == << connections, timers, nextTimer >>
concVars == << inflight, handled >>

\* No connection was opened and no request is taken step by step.
SseQuiet ==
  /\ connections = [c \in Connections |-> NoConnection]
  /\ timers = {}
  /\ nextTimer = 1
ConcQuiet ==
  /\ inflight = [r \in Requests |-> FreeSlot]
  /\ handled = <<>>

\* The record kept of a request: its endpoint, its body, the store before
\* it and the store its handler left, the responses written, the outcome of
\* the handler, whether the handler has returned at its await with the
\* reply still to be written (and then the reply that the continuation
\* writes), and how many other requests were handled since it returned.
Record(op, req, pre, h) ==
  [op |-> op, req |-> req, pre |-> pre, post |-> h.store, out |-> h.out,
   threw |-> h.threw, message |-> h.message, logged |-> h.logged,
   uncaught |-> h.uncaught, awaiting |-> FALSE, reply |-> h.out,
   between |-> 0]

\* The record of a handler that has returned at its await: nothing is
\* written or logged yet.
Suspended(rec) ==
  [rec EXCEPT !.out = <<>>, !.logged = FALSE, !.awaiting = TRUE]

\* The record once the continuation of the await has run: the response is
\* written, and a failure is logged by the catch block.
Resumed(rec) ==
  [rec EXCEPT !.out = rec.reply, !.logged = rec.threw, !.awaiting = FALSE]

\* The model takes up a request to follow only when the one it followed is
\* answered, and follows a behaviour no further once a reply came after
\* another request was handled in between: the store and the clock of such
\* a state are also reached with that other request handled after the
\* reply.
Observing == ~last.awaiting /\ last.between = 0

Init ==
  /\ variant \in Variants
  /\ notesStore = JsArray(<<>>)
  /\ now = ClockStart
  /\ last = Record("listen", EmptyObject, JsArray(<<>>),
                   Handled(JsArray(<<>>), <<>>, NoThrow, FALSE))
  /\ SseQuiet
  /\ ConcQuiet

\* Time passes.
Tick ==
  /\ now < MaxClock
  /\ now' = now + 1
  /\ UNCHANGED << variant, notesStore, last, sseVars, concVars >>

\* POST /messages (server.js, part_000): the handler runs up to the
\* response it writes or, for a tools/call, up to its await, where the call
\* has settled and the store is written.
PostMessages ==
  /\ variant \in {"server", "part_000"}
  /\ Observing
  /\ \E message \in MessagesOf[variant] :
       \E ts \in ClockReadings(now, ClockReadsOf(variant, message, notesStore)) :
         LET h == messages(variant, message, notesStore, ts)
             rec == Record("messages", message, notesStore, h)
         IN  /\ h.store.array => Len(h.store.items) <= MaxNotes
             /\ notesStore' = h.store
             /\ now' = ClockAfter(now, ts)
             /\ last' = IF Awaits(message) THEN Suspended(rec) ELSE rec
  /\ UNCHANGED << variant, sseVars, concVars >>

\* The continuation of the await of /messages writes the response.
ReplyMessages ==
  /\ last.awaiting
  /\ last' = Resumed(last)
  /\ UNCHANGED << variant, notesStore, now, sseVars, concVars >>

\* Between the return of the handler and its reply the server handles
\* another POST /messages.
MeanwhileMessages ==
  /\ last.awaiting
  /\ last.between < MaxBetween
  /\ \E message \in BetweenMessages(variant) :
       \E ts \in ClockReadings(now, ClockReadsOf(variant, message, notesStore)) :
         LET h == messages(variant, message, notesStore, ts)
         IN  /\ h.store.array => Len(h.store.items) <= MaxNotes
             /\ notesStore' = h.store
             /\ now' = ClockAfter(now, ts)
  /\ last' = [last EXCEPT !.between = @ + 1]
  /\ UNCHANGED << variant, sseVars, concVars >>

\* Between the return of the handler and its reply the server handles a
\* POST /sync.
MeanwhileSync ==
  /\ last.awaiting
  /\ last.between < MaxBetween
  /\ \E body \in SyncBodies : notesStore' = sync(variant, body, notesStore).store
  /\ last' = [last EXCEPT !.between = @ + 1]
  /\ UNCHANGED << variant, now, sseVars, concVars >>

\* POST /mcp/tools/call (part_001)
PostMcpToolsCall ==
  /\ variant = "part_001"
  /\ \E body \in McpToolCallsOf[variant] :
       \E rnd \in RandomOutcomes(NameOf(body)) :
         \E ts \in ClockReadings(now, ClockReads(variant, NameOf(body),
                                               ArgumentsOf(body), notesStore)) :
           LET h == mcpToolsCall(body, notesStore, ts, rnd)
           IN  /\ h.store.array => Len(h.store.items) <= MaxNotes
               /\ notesStore' = h.store
               /\ now' = ClockAfter(now, ts)
               /\ last' = Record("mcp/tools/call", body, notesStore, h)
  /\ UNCHANGED << variant, sseVars, concVars >>

\* POST /mcp/tools/list (part_001)
PostMcpToolsList ==
  /\ variant = "part_001"
  /\ LET h == mcpToolsList(notesStore)
     IN  /\ notesStore' = h.store
         /\ last' = Record("mcp/tools/list", EmptyObject, notesStore, h)
  /\ UNCHANGED << variant, now, sseVars, concVars >>

\* POST /sync
PostSync ==
  /\ Observing
  /\ \E body \in SyncBodies :
       LET h == sync(variant, body, notesStore)
       IN  /\ notesStore' = h.store
           /\ last' = Record("sync", body, notesStore, h)
  /\ UNCHANGED << variant, now, sseVars, concVars >>

Next ==
  \/ Tick
  \/ PostMessages
  \/ ReplyMessages
  \/ MeanwhileMessages
  \/ MeanwhileSync
  \/ PostMcpToolsCall
  \/ PostMcpToolsList
  \/ PostSync

Spec == Init /\ [][Next]_vars

\* ------------------------------------------------------------------------
\* The event stream on its own: the programs that have GET /sse, with
\* clients that connect and disconnect while the intervals fire.
\* ------------------------------------------------------------------------
SseInit ==
  /\ variant \in {"server", "part_000"}
  /\ notesStore = JsArray(<<>>)
  /\ now = ClockStart
  /\ last = Record("listen", EmptyObject, JsArray(<<>>),
                   Handled(JsArray(<<>>), <<>>, NoThrow, FALSE))
  /\ SseQuiet
  /\ ConcQuiet

\* The number of keep-alive frames and of close signals in a log.
KeepAlives(log) ==
  Cardinality({i \in 1..Len(log) : log[i] = Written(KeepAliveFrame)})
Closes(log) == Cardinality({i \in 1..Len(log) : log[i] = Closed})

\* GET /sse
GetSse(c) ==
  /\ connections[c].phase = "none"
  /\ connections' = [connections EXCEPT ![c] = sseConnect(nextTimer)]
  /\ timers' = setInterval(timers, nextTimer)
  /\ nextTimer' = nextTimer + 1
  /\ UNCHANGED << variant, notesStore, now, last, concVars >>

\* The interval of connection c fires: only a scheduled interval does.
KeepAliveFires(c) ==
  /\ connections[c].phase # "none"
  /\ connections[c].keepAlive \in timers
  /\ KeepAlives(connections[c].log) < MaxKeepAlives
  /\ connections' = [connections EXCEPT ![c] = keepAliveCallback(@)]
  /\ UNCHANGED << variant, notesStore, now, last, timers, nextTimer, concVars >>

\* req of connection c emits 'close', for the first time or again.
CloseSignal(c) ==
  /\ connections[c].phase # "none"
  /\ Closes(connections[c].log) < MaxCloses
  /\ connections' = [connections EXCEPT ![c] = closeListener(@)]
  /\ timers' = clearInterval(timers, connections[c].keepAlive)
  /\ UNCHANGED << variant, notesStore, now, last, nextTimer, concVars >>

SseNext ==
  \E c \in Connections : GetSse(c) \/ KeepAliveFires(c) \/ CloseSignal(c)

SseSpec == SseInit /\ [][SseNext]_vars

\* ------------------------------------------------------------------------
\* Requests in flight together: server.js and part_000 with several
\* /messages requests received before their handlers run.
\* ------------------------------------------------------------------------
ConcInit ==
  /\ variant \in {"server", "part_000"}
  /\ notesStore = JsArray(<<>>)
  /\ now = ClockStart
  /\ last = Record("listen", EmptyObject, JsArray(<<>>),
                   Handled(JsArray(<<>>), <<>>, NoThrow, FALSE))
  /\ SseQuiet
  /\ ConcQuiet

\* A request arrives and its body is parsed.
Receive(r) ==
  /\ inflight[r].pc = "free"
  /\ \A q \in Requests : q < r => inflight[q].pc # "free"
  /\ \E message \in ConcurrentMessages :
       inflight' = [inflight EXCEPT ![r] =
                      [FreeSlot EXCEPT !.pc = "received", !.message = message]]
  /\ UNCHANGED << variant, notesStore, now, last, sseVars, handled >>

\* The handler of request r starts and runs up to its write of the store.
Lookup(r) ==
  /\ inflight[r].pc = "received"
  /\ EventLoopIdle(inflight)
  /\ NameOf(inflight[r].message.params) = "create_note" =>
       Len(notesStore.items) < MaxNotes
  /\ \E ts \in ClockReadings(now, ClockReadsOf(variant, inflight[r].message,
                                          notesStore)) :
       LET message == inflight[r].message
           step == toolCallLookup(variant, NameOf(message.params),
                                  ArgumentsOf(message.params), notesStore, ts)
       IN  /\ inflight' =
                [inflight EXCEPT ![r] =
                   [@ EXCEPT !.pc = IF step.over THEN "awaiting" ELSE "looked",
                             !.t = ts,
                             !.seen = notesStore,
                             !.tmp = step.tmp,
                             !.outcome = step.outcome]]
           /\ now' = ClockAfter(now, ts)
  /\ handled' = Append(handled, r)
  /\ UNCHANGED << variant, notesStore, last, sseVars >>

\* The handler of request r writes the store and returns.
Write(r) ==
  /\ inflight[r].pc = "looked"
  /\ LET message == inflight[r].message
         outcome == toolCallWrite(variant, NameOf(message.params),
                                  ArgumentsOf(message.params), notesStore,
                                  inflight[r].tmp)
     IN  /\ notesStore' = outcome.store
         /\ inflight' = [inflight EXCEPT ![r] =
                           [@ EXCEPT !.pc = "awaiting", !.outcome = outcome]]
  /\ UNCHANGED << variant, now, last, sseVars, handled >>

\* The continuation of the await of request r writes the response; the
\* continuations run in the order in which the calls settled.
Reply(r) ==
  /\ inflight[r].pc = "awaiting"
  /\ \A i, j \in 1..Len(handled) :
       (handled[j] = r /\ i < j) => inflight[handled[i]].pc = "answered"
  /\ inflight' = [inflight EXCEPT ![r] =
                    [@ EXCEPT !.pc = "answered",
                              !.out = settle(inflight[r].message,
                                             inflight[r].outcome)]]
  /\ UNCHANGED << variant, notesStore, now, last, sseVars, handled >>

ConcNext ==
  \E r \in Requests : Receive(r) \/ Lookup(r) \/ Write(r) \/ Reply(r)

ConcSpec == ConcInit /\ [][ConcNext]_vars

\* ------------------------------------------------------------------------
\* The store growing: the same handlers, with notes created one after the
\* other into a store of up to MaxGrow notes, between changes, removals,
\* listings and /sync, and with other requests handled while a reply is
\* pending.
\* ------------------------------------------------------------------------
\* POST /messages (server.js, part_000) with a tools/call: the handler runs
\* up to its await.
GrowPostMessages ==
  /\ variant \in {"server", "part_000"}
  /\ Observing
  /\ \E message \in GrowMessages :
       \E ts \in ClockReadings(now,
                               ClockReadsOf(variant, message, notesStore)) :
         LET h == messages(variant, message, notesStore, ts)
         IN  /\ h.store.array => Len(h.store.items) <= MaxGrow
             /\ notesStore' = h.store
             /\ now' = ClockAfter(now, ts)
             /\ last' = Suspended(Record("messages", message, notesStore, h))
  /\ UNCHANGED << variant, sseVars, concVars >>

\* POST /mcp/tools/call (part_001)
GrowPostMcpToolsCall ==
  /\ variant = "part_001"
  /\ \E body \in GrowCalls :
       \E rnd \in RandomOutcomes(NameOf(body)) :
         \E ts \in ClockReadings(now, ClockReads(variant, NameOf(body),
                                               ArgumentsOf(body), notesStore)) :
           LET h == mcpToolsCall(body, notesStore, ts, rnd)
           IN  /\ h.store.array => Len(h.store.items) <= MaxGrow
               /\ notesStore' = h.store
               /\ now' = ClockAfter(now, ts)
               /\ last' = Record("mcp/tools/call", body, notesStore, h)
  /\ UNCHANGED << variant, sseVars, concVars >>

\* Between the return of the handler and its reply the server handles
\* another POST /messages.
GrowMeanwhileMessages ==
  /\ last.awaiting
  /\ last.between < MaxBetween
  /\ \E message \in BetweenMessages(variant) :
       \E ts \in ClockReadings(now,
                               ClockReadsOf(variant, message, notesStore)) :
         LET h == messages(variant, message, notesStore, ts)
         IN  /\ h.store.array => Len(h.store.items) <= MaxGrow
             /\ notesStore' = h.store
             /\ now' = ClockAfter(now, ts)
  /\ last' = [last EXCEPT !.between = @ + 1]
  /\ UNCHANGED << variant, sseVars, concVars >>

GrowNext ==
  \/ Tick
  \/ GrowPostMessages
  \/ ReplyMessages
  \/ GrowMeanwhileMessages
  \/ MeanwhileSync
  \/ GrowPostMcpToolsCall
  \/ PostSync

GrowSpec == Init /\ [][GrowNext]_vars

TypeOK ==
  /\ variant \in Variants
  /\ now \in ClockStart..MaxClock
  /\ notesStore.array \in BOOLEAN

\* ------------------------------------------------------------------------
\* Properties
\* ------------------------------------------------------------------------
\* A response that carries a JSON-RPC envelope.
IsEnvelope(e) ==
  e.kind = "json" /\ Has(e.body, "jsonrpc") /\ e.body.jsonrpc = "2.0"

\* The last request was a POST /messages, and it has been answered.
WasMessage == last.op = "messages" /\ ~last.awaiting

\* The last request was a tools/call of `name` that reached the dispatcher
\* with an arguments object.
WasToolCall(name) ==
  \/ /\ WasMessage
     /\ HasMethod(last.req)
     /\ last.req.method = "tools/call"
     /\ Has(last.req, "params")
     /\ NameOf(last.req.params) = name
     /\ Has(last.req.params, "arguments")
  \/ /\ last.op = "mcp/tools/call"
     /\ NameOf(last.req) = name
     /\ Has(last.req, "arguments")

\* The arguments object of the last tools/call.
LastArgs ==
  IF last.op = "messages" THEN last.req.params.arguments
  ELSE last.req.arguments

\* C1: every envelope POSTed to /messages with a method gets, when it has an
\* id, exactly one JSON-RPC envelope with that id and exactly one of result
\* and error, and when it has no id, no envelope but one body-less status
\* acknowledgment; whether or not the method handler threw.
C1_ResponseShape ==
  (WasMessage /\ HasMethod(last.req)) =>
    /\ Len(last.out) = 1
    /\ IF Has(last.req, "id")
       THEN /\ IsEnvelope(last.out[1])
            /\ last.out[1].body.id = last.req.id
            /\ Has(last.out[1].body, "result") # Has(last.out[1].body, "error")
       ELSE /\ last.out[1].kind = "end"
            /\ last.out[1].body = EmptyObject

\* A request with an id whose handler threw was answered by an envelope that
\* carries an error.
C1_Witness ==
  /\ WasMessage /\ HasMethod(last.req) /\ Has(last.req, "id")
  /\ last.threw
  /\ Len(last.out) = 1 /\ IsEnvelope(last.out[1])
  /\ Has(last.out[1].body, "error")

\* C3: when computing the result of a /messages envelope throws, a request
\* is answered by an error envelope with code -32603 and the failure's
\* message, a notification by a body-less 500, and the failure does not
\* leave the handler; an unknown tool and missing params are such failures.
C3_FailureTranslation ==
  /\ (WasMessage /\ last.threw) =>
       /\ ~last.uncaught
       /\ IF Has(last.req, "id")
          THEN last.out =
                 << Json(200, [jsonrpc |-> "2.0", id |-> last.req.id,
                               error |-> [code |-> -32603,
                                          message |-> last.message]]) >>
          ELSE last.out = << End(500) >>
  /\ (WasMessage /\ HasMethod(last.req) /\ last.req.method = "tools/call") =>
       /\ ~Has(last.req, "params") => last.threw
       /\ (Has(last.req, "params")
           /\ NameOf(last.req.params) = "nonexistent_tool") =>
            (last.threw /\ last.message = "Unknown tool: nonexistent_tool")

\* A notification that called an unknown tool was answered by a bare 500.
C3_Witness ==
  /\ WasMessage /\ last.threw /\ ~Has(last.req, "id")
  /\ last.message = "Unknown tool: nonexistent_tool"
  /\ last.out = << End(500) >>

\* C4: an envelope without a method is answered by a 400 with a plain error
\* body, with or without an id, and nothing is dispatched: nothing throws,
\* nothing is logged and the store is as it was.
C4_MalformedEnvelope ==
  (WasMessage /\ ~HasMethod(last.req)) =>
    /\ last.out = << Json(400, [error |-> "Invalid JSON-RPC message"]) >>
    /\ ~IsEnvelope(last.out[1])
    /\ ~last.threw /\ ~last.logged
    /\ last.post = last.pre

\* An envelope with an id and create_note params but no method was rejected.
C4_Witness ==
  /\ WasMessage /\ ~Has(last.req, "method")
  /\ Has(last.req, "id") /\ Has(last.req, "params")
  /\ Len(last.out) = 1 /\ last.out[1].status = 400

\* The notes of the store as the handler of the last request left it, and
\* as it found it.
Items == last.post.items
PreItems == last.pre.items

\* The last request was a tools/call of `name` that returned.
Succeeded(name) == WasToolCall(name) /\ ~last.threw

\* Some note of `items` holds the id that `args` names.
Holds(items, args) ==
  Has(args, "id") /\ \E i \in 1..Len(items) :
                       Has(items[i], "id") /\ items[i].id = args.id

\* `items` without its element at position i.
RemoveAt(items, i) == SubSeq(items, 1, i - 1) \o SubSeq(items, i + 1, Len(items))

\* What list_notes returns for the store the last request left.
ListedNow ==
  LET r == IF variant = "part_001"
           THEN toolsCall_part001("list_notes", EmptyObject, last.post,
                                  << now >>, <<>>)
           ELSE handleToolCall(variant, "list_notes", EmptyObject, last.post,
                               << now >>)
  IN  r.result.content[1].text.value

\* C2: no two notes of the store share an id, in every reachable state.
C2_UniqueIds ==
  \A i, j \in 1..Len(notesStore.items) :
    (i # j /\ Has(notesStore.items[i], "id") /\ Has(notesStore.items[j], "id")) =>
      notesStore.items[i].id # notesStore.items[j].id

\* C5: a create_note that succeeds leaves the store one note longer, the new
\* note first (carrying the supplied title and text) and the notes held
\* before following it unchanged and in order; a list_notes made next
\* returns exactly that list.
C5_CreatePrepends ==
  Succeeded("create_note") =>
    /\ last.post.array /\ last.pre.array
    /\ Len(Items) = Len(PreItems) + 1
    /\ Tail(Items) = PreItems
    /\ \A k \in {"title", "text"} :
         Has(LastArgs, k) => (Has(Head(Items), k) /\ Head(Items)[k] = LastArgs[k])
    /\ ListedNow.items = << Head(Items) >> \o PreItems

\* A create_note succeeded on a store that held two notes that differ.
C5_Witness ==
  /\ Succeeded("create_note")
  /\ Len(PreItems) = 2
  /\ PreItems[1] # PreItems[2]
  /\ Len(Items) = 3

\* C6: a delete_note whose id a note of the store holds removes exactly one
\* note, the one with that id, and leaves the others as they were and in
\* order.
C6_DeleteRemovesOne ==
  (WasToolCall("delete_note") /\ last.pre.array /\ Holds(PreItems, LastArgs)) =>
    /\ ~last.threw
    /\ \E i \in 1..Len(PreItems) :
         /\ Has(PreItems[i], "id") /\ PreItems[i].id = LastArgs.id
         /\ Items = RemoveAt(PreItems, i)

\* C7: a delete_note whose id no note of the store holds fails with
\* "Note not found" and leaves the store as it was.
C7_DeleteNotFound ==
  (WasToolCall("delete_note") /\ Has(LastArgs, "id")
   /\ ~Holds(PreItems, LastArgs)) =>
    /\ last.threw
    /\ last.message = "Note not found"
    /\ last.post = last.pre

\* The frame of a successful update_note: one note that holds the id keeps
\* its position and its id and every field outside `free`; every other note
\* and the length of the store are as before.
UpdateFrame(free) ==
  /\ last.post.array /\ last.pre.array
  /\ Len(Items) = Len(PreItems)
  /\ \E i \in 1..Len(PreItems) :
       /\ SameId(PreItems[i], LastArgs)
       /\ SameId(Items[i], LastArgs)
       /\ \A j \in 1..Len(PreItems) : j # i => Items[j] = PreItems[j]
       /\ \A k \in ((DOMAIN PreItems[i]) \cup (DOMAIN Items[i])) \ free :
            /\ Has(PreItems[i], k) /\ Has(Items[i], k)
            /\ Items[i][k] = PreItems[i][k]

\* C8, as claimed: a successful update_note changes only the fields its
\* patch supplies; every field it does not supply is as before.
C8_OnlyPatchedFields ==
  Succeeded("update_note") => UpdateFrame(DOMAIN LastArgs)

\* C8, amended: a successful update_note changes only the fields its
\* arguments supply and updatedAt.
C8_OnlyPatchedFieldsAndUpdatedAt ==
  Succeeded("update_note") =>
    UpdateFrame((DOMAIN LastArgs) \cup {"updatedAt"})

\* An update_note changed the title of the second of two notes and nothing
\* else but updatedAt.
C8_Witness ==
  /\ Succeeded("update_note")
  /\ Len(PreItems) = 2
  /\ Items[1] = PreItems[1]
  /\ Has(LastArgs, "title") /\ ~Has(LastArgs, "text")
  /\ Has(PreItems[2], "text")
  /\ Has(Items[2], "title") /\ Items[2].title = LastArgs.title
  /\ ~(Has(PreItems[2], "title") /\ PreItems[2].title = LastArgs.title)

\* C9: a tools/call request of update_note whose id no note of the store
\* holds is answered by the error envelope -32603 "Note not found".
C9_UpdateNotFound ==
  (WasMessage /\ WasToolCall("update_note") /\ Has(last.req, "id")
   /\ Has(LastArgs, "id") /\ ~Holds(PreItems, LastArgs)) =>
    last.out = << Json(200, [jsonrpc |-> "2.0", id |-> last.req.id,
                             error |-> [code |-> -32603,
                                        message |-> "Note not found"]]) >>

\* C9 restricted to a store that is an array.
C9_UpdateNotFoundInArray ==
  last.pre.array => C9_UpdateNotFound

\* C10: a create_note whose arguments lack title or text, or give either as
\* an empty string, fails and adds no note.
C10_CreateValidates ==
  (WasToolCall("create_note")
   /\ (~Truthy(LastArgs, "title") \/ ~Truthy(LastArgs, "text"))) =>
    /\ last.threw
    /\ last.post = last.pre

\* The last request reached the tool dispatcher: a tools/call envelope with
\* params, or a POST /mcp/tools/call.
CalledTool ==
  \/ /\ WasMessage
     /\ HasMethod(last.req)
     /\ last.req.method = "tools/call"
     /\ Has(last.req, "params")
  \/ last.op = "mcp/tools/call"

\* The tool name the dispatcher switched on.
CalledName ==
  IF last.op = "messages" THEN NameOf(last.req.params) ELSE NameOf(last.req)

\* The names of a sequence of tool descriptors.
ToolNames(tools) == [i \in 1..Len(tools) |-> tools[i].name]

\* The names of the registry of variant v.
RegistryNames(v) ==
  LET tools == IF v = "part_001" THEN mcpTools_part001.tools ELSE mcpTools
  IN  {tools[i].name : i \in 1..Len(tools)}

\* The handler wrote one response and it reports a failure: an envelope or
\* a body with an error member, or a failure status.
AnsweredWithError ==
  /\ Len(last.out) = 1
  /\ \/ Has(last.out[1].body, "error")
     \/ last.out[1].status >= 400

\* C11: a tools/call whose tool name is not in the registry fails with
\* "Unknown tool: <name>", is answered by an error response, and leaves the
\* store as it was.
C11_UnknownTool ==
  (CalledTool /\ CalledName \notin RegistryNames(variant)) =>
    /\ last.threw
    /\ last.message = "Unknown tool: " \o CalledName
    /\ AnsweredWithError
    /\ last.post = last.pre

\* A request called nonexistent_tool on a store that held a note and got an
\* error, the note still there.
C11_Witness ==
  /\ CalledTool /\ CalledName = "nonexistent_tool"
  /\ last.pre.array /\ Len(PreItems) >= 1
  /\ AnsweredWithError
  /\ last.post = last.pre

\* The five tool names the claim lists, in order.
FiveToolNames ==
  << "list_notes", "create_note", "update_note", "delete_note", "search_notes" >>

\* C12: every tools/list returns descriptors whose names are, in order,
\* list_notes, create_note, update_note, delete_note and search_notes, and
\* no tools/call of one of those five names is answered as an unknown tool.
C12_FiveTools ==
  /\ (WasMessage /\ HasMethod(last.req) /\ last.req.method = "tools/list"
      /\ Has(last.req, "id")) =>
       ToolNames(last.out[1].body.result.tools) = FiveToolNames
  /\ last.op = "mcp/tools/list" =>
       ToolNames(last.out[1].body.tools) = FiveToolNames
  /\ (CalledTool
      /\ \E i \in 1..Len(FiveToolNames) : FiveToolNames[i] = CalledName) =>
       ~(last.threw /\ last.message = "Unknown tool: " \o CalledName)

\* Note n contains query q in its title or its text, letter case ignored.
ContainsCI(n, q) ==
  \/ Has(n, "title") /\ includes(toLowerCase(n.title), toLowerCase(q))
  \/ Has(n, "text") /\ includes(toLowerCase(n.text), toLowerCase(q))

\* The tool result of the last call that returned.
LastToolResult ==
  IF last.op = "messages" THEN last.out[1].body.result ELSE last.out[1].body

\* C13: a search_notes with a non-empty query returns exactly the notes of
\* the store whose title or text contains the query, letter case ignored,
\* in the store's order, and reports their number.
C13_SearchExact ==
  (WasToolCall("search_notes") /\ Truthy(LastArgs, "query") /\ last.pre.array) =>
    /\ ~last.threw
    /\ Len(last.out) = 1 /\ last.out[1].kind = "json"
    /\ LET text == LastToolResult.content[1].text
       IN  /\ text.matches =
                SelectSeq(PreItems, LAMBDA n : ContainsCI(n, LastArgs.query))
           /\ text.length = Len(text.matches)

\* C13 restricted to part_001 and to a store whose notes all have a title
\* and a text.
C13_SearchExactWellFormed ==
  (variant = "part_001"
   /\ \A i \in 1..Len(PreItems) :
        Has(PreItems[i], "title") /\ Has(PreItems[i], "text")) =>
    C13_SearchExact

\* C14: the store is an array in every reachable state, and a /sync whose
\* notes value is not an array is answered by a 400 and leaves the store as
\* it was.
C14_SyncArrayOnly ==
  /\ notesStore.array
  /\ (last.op = "sync" /\ ~(Has(last.req, "notes") /\ last.req.notes.array)) =>
       /\ Len(last.out) = 1 /\ last.out[1].status = 400
       /\ last.post = last.pre

\* The method names the switch of /messages has a case for.
KnownMethods ==
  { "initialize", "notifications/initialized", "tools/list", "tools/call" }

\* C17: initialize, notifications/initialized, tools/list, an unrecognised
\* method and a tools/call of list_notes leave the store as it was; an
\* unrecognised method does not fail and is answered by a null result when
\* the envelope has an id, by a bare 200 when it has none.
C17_ReadOnlyMethods ==
  /\ (WasMessage /\ HasMethod(last.req)
      /\ \/ last.req.method # "tools/call"
         \/ Has(last.req, "params") /\ NameOf(last.req.params) = "list_notes") =>
       last.post = last.pre
  /\ (WasMessage /\ HasMethod(last.req) /\ last.req.method \notin KnownMethods) =>
       /\ ~last.threw /\ ~last.logged
       /\ IF Has(last.req, "id")
          THEN last.out = << Json(200, [jsonrpc |-> "2.0", id |-> last.req.id,
                                        result |-> Null]) >>
          ELSE last.out = << End(200) >>

\* A ping request on a store that held a note was answered by a null result,
\* the note still there.
C17_Witness ==
  /\ WasMessage /\ HasMethod(last.req) /\ last.req.method = "ping"
  /\ Has(last.req, "id")
  /\ last.pre.array /\ Len(PreItems) >= 1
  /\ last.post = last.pre
  /\ Len(last.out) = 1 /\ IsEnvelope(last.out[1])
  /\ last.out[1].body.result = Null

\* The decimal digit a character stands for.
DigitValue(c) == (CHOOSE i \in 1..10 : Digits36[i] = c) - 1

\* Date.parse of a toISOString text of the first minute after the epoch, in
\* milliseconds.
IsoMillis(s) ==
  (DigitValue(s[18]) * 10 + DigitValue(s[19])) * 1000
  + DigitValue(s[21]) * 100 + DigitValue(s[22]) * 10 + DigitValue(s[23])

\* C19: after a successful update_note the updated note has an updatedAt
\* later than the one it had before and later than its createdAt.
C19_UpdatedAtIncreases ==
  Succeeded("update_note") =>
    /\ last.post.array /\ last.pre.array
    /\ LET i == findIndexById(PreItems, LastArgs)
       IN  /\ i >= 1 /\ i <= Len(Items)
           /\ Has(Items[i], "updatedAt")
           /\ Has(PreItems[i], "updatedAt") =>
                IsoMillis(Items[i].updatedAt) > IsoMillis(PreItems[i].updatedAt)
           /\ Has(PreItems[i], "createdAt") =>
                IsoMillis(Items[i].updatedAt) > IsoMillis(PreItems[i].createdAt)

\* C19 restricted to part_001: the updatedAt of the updated note is a
\* clock reading not later than now and not earlier than the one it had.
C19_UpdatedAtIsNow ==
  (variant = "part_001" /\ Succeeded("update_note")) =>
    LET i == findIndexById(PreItems, LastArgs)
    IN  /\ Has(Items[i], "updatedAt")
        /\ IsoMillis(Items[i].updatedAt) <= now
        /\ Has(PreItems[i], "updatedAt") =>
             IsoMillis(Items[i].updatedAt) >= IsoMillis(PreItems[i].updatedAt)

\* C20: a /messages request answered with an error (an error envelope, a
\* body-less 500 or the 400 of a malformed envelope) leaves the store as it
\* was.
C20_ErrorLeavesStore ==
  (WasMessage /\ AnsweredWithError) => last.post = last.pre

\* A request that named an id no note holds was answered with the error
\* "Note not found" on a store that held a note, the note still there.
C20_Witness ==
  /\ WasMessage /\ AnsweredWithError /\ last.threw
  /\ last.message = "Note not found"
  /\ last.pre.array /\ Len(PreItems) >= 1
  /\ last.post = last.pre

\* The positions of the endpoint frame in a log.
EndpointWrites(log) == {i \in 1..Len(log) : log[i] = Written(EndpointFrame)}

\* C15: on every connection the first frame written is the endpoint frame
\* announcing /messages, it is written once, and every frame is written
\* before the connection's close.
C15_EndpointFirst ==
  \A c \in Connections :
    connections[c].phase # "none" =>
      LET log == connections[c].log
      IN  /\ Len(log) >= 1
          /\ log[1] = Written(EndpointFrame)
          /\ EndpointWrites(log) = {1}
          /\ \A i, j \in 1..Len(log) :
               (log[i] = Closed /\ log[j] = Written(KeepAliveFrame)) =>
                 (1 < j /\ j < i)

\* A connection received the endpoint frame, then two keep-alive frames,
\* then closed.
C15_Witness ==
  \E c \in Connections :
    connections[c].log =
      << Written(EndpointFrame), Written(KeepAliveFrame),
         Written(KeepAliveFrame), Closed >>

\* The connections that are open.
OpenConnections == {c \in Connections : connections[c].phase = "open"}

\* C16: the scheduled intervals are exactly those of the open connections,
\* one for each; a connection that closed, once or repeatedly, has no
\* interval scheduled and nothing written to it since.
C16_TimersMatchOpen ==
  /\ timers = {connections[c].keepAlive : c \in OpenConnections}
  /\ Cardinality(timers) = Cardinality(OpenConnections)
  /\ \A c \in Connections :
       connections[c].phase = "closed" =>
         LET log == connections[c].log
             first == CHOOSE i \in 1..Len(log) :
                        log[i] = Closed /\ \A j \in 1..(i - 1) : log[j] # Closed
         IN  /\ connections[c].keepAlive \notin timers
             /\ \A j \in first..Len(log) : log[j] = Closed

\* One connection has signalled close twice while another is open with its
\* interval scheduled and a keep-alive frame received.
C16_Witness ==
  \E c, d \in Connections :
    /\ c # d
    /\ Closes(connections[c].log) = 2
    /\ connections[d].phase = "open"
    /\ timers = {connections[d].keepAlive}
    /\ KeepAlives(connections[d].log) >= 1

\* The slots whose handler has started and written what it writes, in the
\* order the handlers started.
Settled == SelectSeq(handled, LAMBDA r : inflight[r].pc # "looked")

\* The outcome of handling the k-th settled request alone, after the ones
\* before it, each in one piece.
RECURSIVE Sequential(_)
Sequential(k) ==
  LET before == IF k = 1 THEN JsArray(<<>>) ELSE Sequential(k - 1).store
      r == Settled[k]
  IN  messages(variant, inflight[r].message, before, inflight[r].t)

\* C18: while a call is between its lookup and its write the store is as the
\* call saw it; the store is what handling the requests one after another,
\* in the order their handlers started, leaves; and every reply is the one
\* that sequential handling gives.
C18_Serializable ==
  /\ \A r \in Requests :
       inflight[r].pc = "looked" => notesStore = inflight[r].seen
  /\ notesStore =
       (IF Settled = <<>> THEN JsArray(<<>>) ELSE Sequential(Len(Settled)).store)
  /\ \A k \in 1..Len(Settled) :
       inflight[Settled[k]].pc = "answered" =>
         inflight[Settled[k]].out = Sequential(k).out

\* Three requests were in flight together, the last received was handled
\* first, all were answered and a note is left.
C18_Witness ==
  /\ Len(handled) = MaxRequests
  /\ handled[1] = MaxRequests
  /\ \A r \in Requests : inflight[r].pc = "answered"
  /\ notesStore.items # <<>>

====
